---- MODULE Spec2Model ----
(***************************************************************************)
(* A model of the mindexer experiment harness (src/experiments):           *)
(*   - parse_mindexer_output: the parser of the recommendation tool's      *)
(*     line-oriented stdout;                                               *)
(*   - create_indexes: the conversion of index descriptors to              *)
(*     (field, direction) pairs;                                           *)
(*   - evaluate.main and profile_workload.main: the two entry points, as   *)
(*     sequential processes over a database, the tool and the metric log.  *)
(*                                                                         *)
(* Text is modelled as a sequence of lexemes (a lexeme is a maximal token  *)
(* of the text: a brace, a string literal, a number, a blank, a newline).  *)
(* Python values are records of one shape, [k, n, s, items], so that any   *)
(* two of them can be compared.                                            *)
(***************************************************************************)
EXTENDS Integers, Sequences, FiniteSets, Bags, TLC

VARIABLES
    entry,                  \* which program runs: "parse", "evaluate", "profile_workload"
    pc,                     \* position of the running program
    exc,                    \* the exception that left the program ("none" while none)
    workload_param,         \* yanex parameter "workload" ("ABSENT" when not configured)
    workload,               \* the workload object: [name, db_name, collection_name]
    num_runs,               \* yanex parameter eval.num_runs
    discard_best_worst,     \* yanex parameter eval.discard_best_worst
    db_collections,         \* collection names of the addressed database
    profile_level,          \* profiling level of the addressed database
    coll_indexes,           \* index specifications on the workload collection (besides _id)
    stdout,                 \* stdout of the recommendation tool
    recommended_indexes,    \* result of parse_mindexer_output
    ci,                     \* create_indexes: number of descriptors handled so far
    n,                      \* loop counter of the timed runs
    exec_times_no_indexes,  \* samples collected without indexes
    exec_times_with_indexes,\* samples collected with indexes
    metrics,                \* yanex.log_metrics calls, in order
    texts,                  \* yanex.log_text artifact names, in order
    calls                   \* external calls issued so far, in order

vars == <<entry, pc, exc, workload_param, workload, num_runs, discard_best_worst,
          db_collections, profile_level, coll_indexes, stdout, recommended_indexes,
          ci, n, exec_times_no_indexes, exec_times_with_indexes, metrics, texts, calls>>

(***************************************************************************)
(* Bounds of the model.                                                    *)
(***************************************************************************)
MaxLines == 4
MaxRuns == 3
MaxTime == 2

(***************************************************************************)
(* Lexemes.                                                                *)
(***************************************************************************)
MARKER == ">> recommending"
NL == "\n"
SP == " "
Whitespace == {SP, NL}
IntLexemes == {"1", "-1", "2"}
StrLexemes == {"'a'", "'b'"}
NameLexemes == {"x"}

IntOf(t) == CASE t = "1" -> 1 [] t = "-1" -> 0 - 1 [] t = "2" -> 2

StrOf(t) == CASE t = "'a'" -> "a" [] t = "'b'" -> "b"

(***************************************************************************)
(* Python values.                                                          *)
(***************************************************************************)
PyInt(i) == [k |-> "int", n |-> i, s |-> "", items |-> <<>>]
PyStr(t) == [k |-> "str", n |-> 0, s |-> t, items |-> <<>>]
PyName(t) == [k |-> "name", n |-> 0, s |-> t, items |-> <<>>]
PyContainer(kind, its) == [k |-> kind, n |-> 0, s |-> "", items |-> its]
PyList(its) == PyContainer("list", its)
PyTuple(its) == PyContainer("tuple", its)
PyDict(its) == PyContainer("dict", its)
\* one entry of a dict (or of a dict display): key and value
PyEntry(key, val) == PyContainer("entry", <<key, val>>)

\* list, dict and set are unhashable; a tuple never occurs inside a display
\* of this lexeme language
Hashable(v) == v.k \in {"int", "str"}

RECURSIVE DictInsert(_, _, _)
\* d[key] = val on the entries of an insertion-ordered dict
DictInsert(its, key, val) ==
    IF its = <<>> THEN <<PyEntry(key, val)>>
    ELSE IF Head(its).items[1] = key THEN <<PyEntry(key, val)>> \o Tail(its)
    ELSE <<Head(its)>> \o DictInsert(Tail(its), key, val)

\* s.add(v) on the elements of a set, kept in first-insertion order
SetInsert(its, v) ==
    IF \E i \in 1..Len(its) : its[i] = v THEN its ELSE Append(its, v)

(***************************************************************************)
(* str.strip, str.split, str.startswith and str.endswith on lexemes.       *)
(***************************************************************************)
RECURSIVE LStrip(_)
LStrip(t) ==
    IF t # <<>> /\ Head(t) \in Whitespace THEN LStrip(Tail(t)) ELSE t

RECURSIVE RStrip(_)
RStrip(t) ==
    IF t # <<>> /\ t[Len(t)] \in Whitespace THEN RStrip(SubSeq(t, 1, Len(t) - 1)) ELSE t

Strip(t) == RStrip(LStrip(t))

RECURSIVE SplitFrom(_, _, _, _)
\* the pieces of t from position i on; cur is the piece being read
SplitFrom(t, sep, i, cur) ==
    IF i > Len(t) THEN <<cur>>
    ELSE IF t[i] = sep THEN <<cur>> \o SplitFrom(t, sep, i + 1, <<>>)
    ELSE SplitFrom(t, sep, i + 1, Append(cur, t[i]))

Split(t, sep) == SplitFrom(t, sep, 1, <<>>)

StartsWith(t, lexeme) == Len(t) >= 1 /\ t[1] = lexeme

EndsWith(t, lexeme) == Len(t) >= 1 /\ t[Len(t)] = lexeme

(***************************************************************************)
(* ast.literal_eval on one line: the line is parsed as a whole (a failure  *)
(* is SyntaxError), then converted left to right (a name is ValueError,    *)
(* an unhashable dict key or set element is TypeError).  Intermediate      *)
(* results are passed as operator arguments.                               *)
(***************************************************************************)
ParseFail == [ok |-> FALSE, node |-> PyName(""), nxt |-> 0]

ParseOk(node, nxt) == [ok |-> TRUE, node |-> node, nxt |-> nxt]

IsEntry(node) == node.k = "entry"

Closer(open) == IF open = "[" THEN "]" ELSE "}"

RECURSIVE ParseStr(_, _, _)
\* adjacent string literals concatenate
ParseStr(ts, i, acc) ==
    IF i <= Len(ts) /\ ts[i] \in StrLexemes
    THEN ParseStr(ts, i + 1, acc \o StrOf(ts[i]))
    ELSE ParseOk(PyStr(acc), i)

\* a display from its parsed items r: a list, a dict (entries only, or empty)
\* or a set (no entry); entries mixed with elements do not parse
Display(open, r) ==
    IF ~r.ok THEN ParseFail
    ELSE IF open = "[" THEN ParseOk(PyList(r.node.items), r.nxt)
    ELSE IF \A j \in 1..Len(r.node.items) : IsEntry(r.node.items[j])
         THEN ParseOk(PyDict(r.node.items), r.nxt)
    ELSE IF \A j \in 1..Len(r.node.items) : ~IsEntry(r.node.items[j])
         THEN ParseOk(PyContainer("set", r.node.items), r.nxt)
    ELSE ParseFail

\* key : value, from the parsed value v
MakeEntry(key, v) ==
    IF v.ok THEN ParseOk(PyEntry(key, v.node), v.nxt) ELSE ParseFail

RECURSIVE ParseExpr(_, _)
RECURSIVE ParseItems(_, _, _, _)
\* one expression starting at lexeme i
ParseExpr(ts, i) ==
    IF i > Len(ts) THEN ParseFail
    ELSE IF ts[i] \in IntLexemes THEN ParseOk(PyInt(IntOf(ts[i])), i + 1)
    ELSE IF ts[i] \in StrLexemes THEN ParseStr(ts, i + 1, StrOf(ts[i]))
    ELSE IF ts[i] \in NameLexemes THEN ParseOk(PyName(ts[i]), i + 1)
    ELSE IF ts[i] \in {"[", "{"}
         THEN Display(ts[i], ParseItems(ts, i + 1, Closer(ts[i]), <<>>))
    ELSE ParseFail

\* one item of a display from its first expression e: in braces, e may be a key
ParseItem(ts, closer, e) ==
    IF e.ok /\ closer = "}" /\ e.nxt <= Len(ts) /\ ts[e.nxt] = ":"
    THEN MakeEntry(e.node, ParseExpr(ts, e.nxt + 1))
    ELSE e

\* after the item it: a comma and the rest, or the closing bracket
AfterItem(ts, closer, acc, it) ==
    IF ~it.ok \/ it.nxt > Len(ts) THEN ParseFail
    ELSE IF ts[it.nxt] = ","
         THEN ParseItems(ts, it.nxt + 1, closer, Append(acc, it.node))
    ELSE IF ts[it.nxt] = closer
         THEN ParseOk(PyList(Append(acc, it.node)), it.nxt + 1)
    ELSE ParseFail

\* the comma-separated items of a display up to its closing bracket
ParseItems(ts, i, closer, acc) ==
    IF i > Len(ts) THEN ParseFail
    ELSE IF ts[i] = closer THEN ParseOk(PyList(acc), i + 1)
    ELSE AfterItem(ts, closer, acc, ParseItem(ts, closer, ParseExpr(ts, i)))

RECURSIVE ParseTop(_, _, _, _)
\* after the top-level expression e: the end of the line, or a comma (a tuple)
AfterTop(ts, acc, comma, e) ==
    IF ~e.ok THEN ParseFail
    ELSE IF e.nxt > Len(ts) THEN ParseTop(ts, e.nxt, Append(acc, e.node), comma)
    ELSE IF ts[e.nxt] = "," THEN ParseTop(ts, e.nxt + 1, Append(acc, e.node), TRUE)
    ELSE ParseFail

\* the whole line: one expression, or a tuple of expressions separated by commas
ParseTop(ts, i, acc, comma) ==
    IF i > Len(ts) THEN
        IF acc = <<>> THEN ParseFail
        ELSE IF comma THEN ParseOk(PyTuple(acc), i)
        ELSE ParseOk(acc[1], i)
    ELSE AfterTop(ts, acc, comma, ParseExpr(ts, i))

Raised(name) == [exc |-> name, value |-> PyName("")]

Returned(v) == [exc |-> "none", value |-> v]

RECURSIVE Convert(_)
RECURSIVE ConvertItems(_, _, _, _)
\* ast.literal_eval's _convert
Convert(node) ==
    IF node.k \in {"int", "str"} THEN Returned(node)
    ELSE IF node.k = "name" THEN Raised("ValueError")
    ELSE ConvertItems(node.k, node.items, 1, <<>>)

\* dict(zip(keys, values)): the converted key and value are inserted
AfterEntry(its, i, acc, key, val) ==
    IF key.exc # "none" THEN key
    ELSE IF val.exc # "none" THEN val
    ELSE IF ~Hashable(key.value) THEN Raised("TypeError")
    ELSE ConvertItems("dict", its, i + 1, DictInsert(acc, key.value, val.value))

\* set(...), list(...), tuple(...): the converted element e is inserted
AfterElement(kind, its, i, acc, e) ==
    IF e.exc # "none" THEN e
    ELSE IF kind = "set" /\ ~Hashable(e.value) THEN Raised("TypeError")
    ELSE ConvertItems(kind, its, i + 1,
                      IF kind = "set" THEN SetInsert(acc, e.value)
                      ELSE Append(acc, e.value))

\* the items are converted and inserted one at a time, in order
ConvertItems(kind, its, i, acc) ==
    IF i > Len(its) THEN Returned(PyContainer(kind, acc))
    ELSE IF kind = "dict"
         THEN AfterEntry(its, i, acc, Convert(its[i].items[1]), Convert(its[i].items[2]))
    ELSE AfterElement(kind, its, i, acc, Convert(its[i]))

NotBlank(t) == t \notin Whitespace

Evaluate(tree) == IF ~tree.ok THEN Raised("SyntaxError") ELSE Convert(tree.node)

literal_eval(line) == Evaluate(ParseTop(SelectSeq(line, NotBlank), 1, <<>>, FALSE))

(***************************************************************************)
(* parse_mindexer_output.                                                  *)
(***************************************************************************)
output_lines(output) == Split(Strip(output), NL)

IsRecommendingLine(line) == StartsWith(Strip(line), MARKER)

\* mutant: the first loop without its break keeps the last marker line
FindRecommending_last(lines, i) ==
    LET found == {j \in i..Len(lines) : IsRecommendingLine(lines[j])}
    IN  IF found = {} THEN 0 ELSE CHOOSE j \in found : \A m \in found : m <= j

RECURSIVE FindRecommending(_, _)
\* the first loop: the position of the first marker line from i on, 0 for None
FindRecommending(lines, i) ==
    IF i > Len(lines) THEN 0
    ELSE IF IsRecommendingLine(lines[i]) THEN i
    ELSE FindRecommending(lines, i + 1)

recommending_line_idx(lines) == FindRecommending(lines, 1)

LooksLikeDict(line) == StartsWith(line, "{") /\ EndsWith(line, "}")

\* except (ValueError, SyntaxError)
Caught(e) == e \in {"ValueError", "SyntaxError"}

\* the try statement on the outcome r of literal_eval: append, skip, or propagate
TryAppend(acc, r) ==
    IF r.exc = "none" THEN Returned(Append(acc, r.value))
    ELSE IF Caught(r.exc) THEN Returned(acc)
    ELSE [exc |-> r.exc, value |-> <<>>]

\* the body of the second loop on one stripped line
ExtractLine(acc, line) ==
    IF line = <<>> THEN Returned(acc)
    ELSE IF ~LooksLikeDict(line) THEN Returned(acc)
    ELSE TryAppend(acc, literal_eval(line))

RECURSIVE ExtractIndexes(_, _, _)
\* the loop goes on with the list after this line unless an exception left it
ExtractNext(lines, i, r) ==
    IF r.exc = "none" THEN ExtractIndexes(lines, i + 1, r.value) ELSE r

\* the second loop, over the lines from position i on
ExtractIndexes(lines, i, acc) ==
    IF i > Len(lines) THEN Returned(acc)
    ELSE ExtractNext(lines, i, ExtractLine(acc, Strip(lines[i])))

\* the lines after the marker line at idx, or nothing when there is none
ExtractAfter(lines, idx) ==
    IF idx = 0 THEN Returned(<<>>) ELSE ExtractIndexes(lines, idx + 1, <<>>)

ParseLines(lines) == ExtractAfter(lines, recommending_line_idx(lines))

\* [exc, value]: the list returned, or the exception that leaves the function
parse_mindexer_output(output) == ParseLines(output_lines(output))

(***************************************************************************)
(* Tool outputs: up to MaxLines lines of a catalogue, joined by newlines.  *)
(***************************************************************************)
LineBlank == <<>>
LineMarker == <<SP, MARKER, SP, "x">>
LineText == <<"x">>
LineA == <<SP, "{", "'a'", ":", SP, "1", "}", SP>>
LineAB == <<"{", "'a'", ":", SP, "1", ",", SP, "'b'", ":", SP, "-1", "}">>
LineSet == <<"{", "'a'", ",", SP, "2", "}">>
LineTuple == <<"{", "'a'", ":", "1", "}", ",", "{", "'b'", ":", "1", "}">>
LineUnclosed == <<"{", "'a'", ":", SP, "1">>
LineSyntax == <<"{", "'a'", ":", "}">>
LineName == <<"{", "x", ":", SP, "1", "}">>
LineUnhashable == <<"{", "[", "]", ":", SP, "1", "}">>

Catalogue ==
    {LineBlank, LineMarker, LineText, LineA, LineAB, LineSet, LineTuple,
     LineUnclosed, LineSyntax, LineName, LineUnhashable}

RECURSIVE Join(_)
Join(lines) ==
    IF lines = <<>> THEN <<>>
    ELSE IF Len(lines) = 1 THEN lines[1]
    ELSE lines[1] \o <<NL>> \o Join(Tail(lines))

Outputs == {Join(ls) : ls \in UNION {[1..m -> Catalogue] : m \in 0..MaxLines}}

(***************************************************************************)
(* The parser alone, on every output.                                      *)
(***************************************************************************)
NoWorkload == [name |-> "", db_name |-> "", collection_name |-> ""]

InitParse ==
    /\ entry = "parse"
    /\ pc = "parse"
    /\ exc = "none"
    /\ workload_param = "ABSENT"
    /\ workload = NoWorkload
    /\ num_runs = 1
    /\ discard_best_worst = FALSE
    /\ db_collections = {}
    /\ profile_level = 0
    /\ coll_indexes = <<>>
    /\ stdout \in Outputs
    /\ recommended_indexes = <<>>
    /\ ci = 0
    /\ n = 0
    /\ exec_times_no_indexes = <<>>
    /\ exec_times_with_indexes = <<>>
    /\ metrics = <<>>
    /\ texts = <<>>
    /\ calls = <<>>

\* the outcome r of the call is kept
Keep(r) ==
    /\ recommended_indexes' = r.value
    /\ exc' = r.exc
    /\ pc' = IF r.exc = "none" THEN "done" ELSE "aborted"

ParseOutput ==
    /\ entry = "parse"
    /\ pc = "parse"
    /\ Keep(parse_mindexer_output(stdout))
    /\ UNCHANGED <<entry, workload_param, workload, num_runs, discard_best_worst,
                   db_collections, profile_level, coll_indexes, stdout, ci, n,
                   exec_times_no_indexes, exec_times_with_indexes, metrics, texts, calls>>

NextParse == ParseOutput

SpecParse == InitParse /\ [][NextParse]_vars

(***************************************************************************)
(* Workloads (workloads.py) and parameters.                                *)
(***************************************************************************)
EmberWorkload == [name |-> "ember", db_name |-> "ember2018", collection_name |-> "ember_train"]

LinkbenchWorkload == [name |-> "linkbench", db_name |-> "linkbench", collection_name |-> "linktable"]

TestWorkload == [name |-> "test", db_name |-> "ember2018", collection_name |-> "ember_test"]

\* mutant: an unknown name falls back to the test workload
get_workload_default(workload_name) ==
    IF workload_name = "ember" THEN [exc |-> "none", value |-> EmberWorkload]
    ELSE IF workload_name = "linkbench" THEN [exc |-> "none", value |-> LinkbenchWorkload]
    ELSE [exc |-> "none", value |-> TestWorkload]

get_workload(workload_name) ==
    IF workload_name = "ember" THEN [exc |-> "none", value |-> EmberWorkload]
    ELSE IF workload_name = "linkbench" THEN [exc |-> "none", value |-> LinkbenchWorkload]
    ELSE IF workload_name = "test" THEN [exc |-> "none", value |-> TestWorkload]
    ELSE [exc |-> "ValueError", value |-> NoWorkload]

\* yanex.get_param(key, default) on the configured value of the key
get_param(configured, default) == IF configured = "ABSENT" THEN default ELSE configured

WorkloadParams == {"ABSENT", "", "ember", "linkbench", "test", "bogus"}

\* only TestWorkload.execute_workload issues queries; the other two are `pass`
IssuesQueries(w) == w.name = "test"

(***************************************************************************)
(* The environment: the database, the tool, the calls made on them.        *)
(***************************************************************************)
NoArg == PyName("")

Call(op) == [op |-> op, arg |-> NoArg]

CallWith(op, arg) == [op |-> op, arg |-> arg]

Text(name, content) == [name |-> name, content |-> content]

DataCollections == {"ember_train", "ember_test", "linktable"}

\* an index left on the collection by an earlier experiment
OldIndex == PyList(<<PyTuple(<<PyStr("b"), PyInt(1)>>)>>)

OutNoMarker == Join(<<LineText, LineA>>)
OutNoIndexes == Join(<<LineMarker, LineUnclosed>>)
OutOne == Join(<<LineMarker, LineA>>)
OutTwo == Join(<<LineMarker, LineAB, LineTuple>>)
OutSet == Join(<<LineMarker, LineSet>>)
OutUnhashable == Join(<<LineMarker, LineUnhashable, LineA>>)

ToolOutputs == {OutNoMarker, OutNoIndexes, OutOne, OutTwo, OutSet, OutUnhashable}

TimeValues == 1..MaxTime

RECURSIVE JsonSerializable(_)
\* json.dumps raises TypeError on a set, at any depth
JsonSerializable(v) ==
    /\ v.k # "set"
    /\ \A i \in 1..Len(v.items) : JsonSerializable(v.items[i])

\* the database call sequence of execute_workload
ExecuteCalls(w) ==
    <<Call("execute_workload")>>
        \o (IF IssuesQueries(w) THEN <<Call("find"), Call("find")>> ELSE <<>>)

Init ==
    /\ entry \in {"evaluate", "profile_workload"}
    /\ pc = "start"
    /\ exc = "none"
    /\ workload_param \in WorkloadParams
    /\ workload = NoWorkload
    /\ num_runs \in IF entry = "evaluate" THEN 0..MaxRuns ELSE {1}
    /\ discard_best_worst \in IF entry = "evaluate" THEN BOOLEAN ELSE {FALSE}
    /\ db_collections \in {{}, {"system.profile"}, DataCollections,
                           DataCollections \cup {"system.profile"}}
    /\ profile_level \in {0, 1}
    /\ coll_indexes \in {<<>>, <<OldIndex>>}
    /\ stdout = <<>>
    /\ recommended_indexes = <<>>
    /\ ci = 0
    /\ n = 0
    /\ exec_times_no_indexes = <<>>
    /\ exec_times_with_indexes = <<>>
    /\ metrics = <<>>
    /\ texts = <<>>
    /\ calls = <<>>

\* an exception leaves main
Abort(e) == pc' = "aborted" /\ exc' = e

(***************************************************************************)
(* Functions of evaluate.py.                                               *)
(***************************************************************************)
\* mutant: the collection is looked for only after the profiler was reset
enable_profiling_late_check(next) ==
    /\ profile_level' = 1
    /\ db_collections' = db_collections \ {"system.profile"}
    /\ calls' = calls
           \o <<Call("profile_0"), Call("list_collection_names")>>
           \o (IF "system.profile" \in db_collections
               THEN <<Call("drop_collection")>> ELSE <<>>)
           \o <<Call("profile_1"), Call("list_collection_names")>>
    /\ IF workload.collection_name \notin db_collections
       THEN Abort("ValidationError")
       ELSE pc' = next /\ exc' = exc

\* enable_profiling: pc becomes next unless the collection is missing
enable_profiling(next) ==
    IF workload.collection_name \notin db_collections
    THEN /\ profile_level' = 0
         /\ db_collections' = db_collections
         /\ calls' = calls \o <<Call("profile_0"), Call("list_collection_names")>>
         /\ Abort("ValidationError")
    ELSE /\ profile_level' = 1
         /\ db_collections' = db_collections \ {"system.profile"}
         /\ calls' = calls
                \o <<Call("profile_0"), Call("list_collection_names"),
                     Call("list_collection_names")>>
                \o (IF "system.profile" \in db_collections
                    THEN <<Call("drop_collection")>> ELSE <<>>)
                \o <<Call("profile_1")>>
         /\ pc' = next
         /\ exc' = exc

\* mutant: the profile entries are stored while the profiler is left running
disable_profiling_left_on(next) ==
    /\ profile_level' = profile_level
    /\ calls' = calls \o <<Call("count_documents"), Call("find_profile")>>
    /\ texts' = Append(texts, Text("system_profile.json", <<>>))
    /\ pc' = next

\* disable_profiling
disable_profiling(next) ==
    /\ profile_level' = 0
    /\ calls' = calls \o <<Call("profile_0"), Call("count_documents"), Call("find_profile")>>
    /\ texts' = Append(texts, Text("system_profile.json", <<>>))
    /\ pc' = next

\* execute_workload under the profiler: at level 1 the queries are recorded
Profiled(colls, w) ==
    IF IssuesQueries(w) /\ profile_level = 1 THEN colls \cup {"system.profile"} ELSE colls

\* the calls of an execute_workload whose first query raises
FailedExecuteCalls == <<Call("execute_workload"), Call("find")>>

\* the (field, direction) tuples of index.items(), in key order
DictItems(index) ==
    [i \in 1..Len(index.items) |->
        PyTuple(<<index.items[i].items[1], index.items[i].items[2]>>)]

\* mutant: every field is indexed in ascending direction
index_spec_ascending(index) ==
    IF index.k = "dict"
    THEN PyList([i \in 1..Len(index.items) |-> PyTuple(<<index.items[i].items[1], PyInt(1)>>)])
    ELSE index

\* create_indexes: what is handed to collection.create_index for one descriptor
index_spec(index) ==
    IF index.k = "dict" THEN PyList(DictItems(index)) ELSE index

RECURSIVE Insert(_, _)
Insert(sorted, x) ==
    IF sorted = <<>> THEN <<x>>
    ELSE IF x <= Head(sorted) THEN <<x>> \o sorted
    ELSE <<Head(sorted)>> \o Insert(Tail(sorted), x)

RECURSIVE Sort(_)
\* list.sort()
Sort(t) == IF t = <<>> THEN <<>> ELSE Insert(Sort(Tail(t)), Head(t))

\* mutant: the slice is taken without sorting first
DiscardBestWorst_unsorted(t) == SubSeq(t, 2, Len(t) - 1)

\* exec_times.sort(); exec_times[1:-1]
DiscardBestWorst(t) == SubSeq(Sort(t), 2, Len(t) - 1)

\* the samples the statistics are computed over
StatSamples(t) ==
    IF discard_best_worst /\ num_runs >= 3 THEN DiscardBestWorst(t) ELSE t

RECURSIVE Sum(_)
Sum(t) == IF t = <<>> THEN 0 ELSE Head(t) + Sum(Tail(t))

RECURSIVE SumSq(_)
SumSq(t) == IF t = <<>> THEN 0 ELSE Head(t) * Head(t) + SumSq(Tail(t))

\* np.mean as the exact fraction <<numerator, denominator>>
Mean(t) == <<Sum(t), Len(t)>>

\* np.std by its square, the population variance, as an exact fraction
Variance(t) == <<Len(t) * SumSq(t) - Sum(t) * Sum(t), Len(t) * Len(t)>>

Metric(name, step, value) == [name |-> name, step |-> step, value |-> value]

Summary(no, with) ==
    Metric("summary", 0 - 1,
           [samples_no_indexes |-> no,
            samples_with_indexes |-> with,
            mean_exec_time_no_indexes |-> Mean(no),
            stddev_exec_time_no_indexes |-> Variance(no),
            mean_exec_time_with_indexes |-> Mean(with),
            stddev_exec_time_with_indexes |-> Variance(with),
            num_recommended_indexes |-> Len(recommended_indexes)])

\* json.dumps(recommended_indexes) returns
Dumpable(r) == \A i \in 1..Len(r.value) : JsonSerializable(r.value[i])

\* run_mindexer after parsing gave r
LogRecommended(r, next, keep) ==
    IF r.exc # "none"
    THEN Abort(r.exc) /\ UNCHANGED <<recommended_indexes, texts>>
    ELSE IF ~Dumpable(r)
    THEN Abort("TypeError") /\ UNCHANGED <<recommended_indexes, texts>>
    ELSE /\ texts' = Append(texts, Text("mindexer_recommended_indexes.json", r.value))
         /\ recommended_indexes' = IF keep THEN r.value ELSE recommended_indexes
         /\ pc' = next
         /\ exc' = exc

\* run_mindexer: the tool prints out; keep tells whether the caller gets the list
run_mindexer(out, next, keep) ==
    /\ calls' = Append(calls, Call("mindexer"))
    /\ LogRecommended(parse_mindexer_output(out), next, keep)

\* mutant: the warmup run is left out
WarmupRun_skipped(next) ==
    /\ calls' = calls
    /\ pc' = next
    /\ exc' = exc

\* a warmup run: run_workload, its result dropped
WarmupRun(next) ==
    \/ /\ calls' = calls \o ExecuteCalls(workload)
       /\ pc' = next
       /\ exc' = exc
    \/ /\ IssuesQueries(workload)
       /\ calls' = calls \o FailedExecuteCalls
       /\ Abort("QueryError")

\* mutant: a failed run is skipped and the loop goes on
TimedRun_swallow(series, next) ==
    \/ \E t \in TimeValues :
        /\ calls' = calls \o ExecuteCalls(workload)
        /\ metrics' = Append(metrics, Metric(series, n, t))
        /\ IF series = "exec_time_no_indexes"
           THEN /\ exec_times_no_indexes' = Append(exec_times_no_indexes, t)
                /\ UNCHANGED exec_times_with_indexes
           ELSE /\ exec_times_with_indexes' = Append(exec_times_with_indexes, t)
                /\ UNCHANGED exec_times_no_indexes
        /\ n' = n + 1
        /\ pc' = IF n + 1 = num_runs THEN next ELSE pc
        /\ exc' = exc
    \/ /\ IssuesQueries(workload)
       /\ calls' = calls \o FailedExecuteCalls
       /\ n' = n + 1
       /\ pc' = IF n + 1 = num_runs THEN next ELSE pc
       /\ UNCHANGED <<exc, metrics, exec_times_no_indexes, exec_times_with_indexes>>

\* one iteration of a timed loop: the sample t is logged at step n and kept
TimedRun(series, next) ==
    \/ \E t \in TimeValues :
        /\ calls' = calls \o ExecuteCalls(workload)
        /\ metrics' = Append(metrics, Metric(series, n, t))
        /\ IF series = "exec_time_no_indexes"
           THEN /\ exec_times_no_indexes' = Append(exec_times_no_indexes, t)
                /\ UNCHANGED exec_times_with_indexes
           ELSE /\ exec_times_with_indexes' = Append(exec_times_with_indexes, t)
                /\ UNCHANGED exec_times_no_indexes
        /\ n' = n + 1
        /\ pc' = IF n + 1 = num_runs THEN next ELSE pc
        /\ exc' = exc
    \/ /\ IssuesQueries(workload)
       /\ calls' = calls \o FailedExecuteCalls
       /\ Abort("QueryError")
       /\ UNCHANGED <<metrics, exec_times_no_indexes, exec_times_with_indexes, n>>

(***************************************************************************)
(* evaluate.main, one action per step.                                     *)
(***************************************************************************)
\* mutant: the client is created before the parameters are validated
EvalValidate_after_connect ==
    /\ entry = "evaluate"
    /\ pc = "start"
    /\ calls' = Append(calls, Call("MongoClient"))
    /\ LET workload_name == get_param(workload_param, "test")
           w == get_workload(workload_name)
       IN  IF num_runs <= 0 THEN Abort("ValidationError") /\ UNCHANGED workload
           ELSE IF workload_name = "" THEN Abort("ValidationError") /\ UNCHANGED workload
           ELSE IF w.exc = "ValueError" THEN Abort("ValidationError") /\ UNCHANGED workload
           ELSE pc' = "enable_profiling" /\ exc' = exc /\ workload' = w.value
    /\ UNCHANGED <<entry, workload_param, num_runs, discard_best_worst, db_collections,
                   profile_level, coll_indexes, stdout, recommended_indexes, ci, n,
                   exec_times_no_indexes, exec_times_with_indexes, metrics, texts>>

EvalValidate ==
    /\ entry = "evaluate"
    /\ pc = "start"
    /\ LET workload_name == get_param(workload_param, "test")
           w == get_workload(workload_name)
       IN  IF num_runs <= 0 THEN Abort("ValidationError") /\ UNCHANGED workload
           ELSE IF workload_name = "" THEN Abort("ValidationError") /\ UNCHANGED workload
           ELSE IF w.exc = "ValueError" THEN Abort("ValidationError") /\ UNCHANGED workload
           ELSE pc' = "connect" /\ exc' = exc /\ workload' = w.value
    /\ UNCHANGED <<entry, workload_param, num_runs, discard_best_worst, db_collections,
                   profile_level, coll_indexes, stdout, recommended_indexes, ci, n,
                   exec_times_no_indexes, exec_times_with_indexes, metrics, texts, calls>>

EvalConnect ==
    /\ entry = "evaluate"
    /\ pc = "connect"
    /\ calls' = Append(calls, Call("MongoClient"))
    /\ pc' = "enable_profiling"
    /\ UNCHANGED <<entry, exc, workload_param, workload, num_runs, discard_best_worst,
                   db_collections, profile_level, coll_indexes, stdout,
                   recommended_indexes, ci, n, exec_times_no_indexes,
                   exec_times_with_indexes, metrics, texts>>

EvalEnableProfiling ==
    /\ entry = "evaluate"
    /\ pc = "enable_profiling"
    /\ enable_profiling("profiled_run")
    /\ UNCHANGED <<entry, workload_param, workload, num_runs, discard_best_worst,
                   coll_indexes, stdout, recommended_indexes, ci, n,
                   exec_times_no_indexes, exec_times_with_indexes, metrics, texts>>

EvalProfiledRun ==
    /\ entry = "evaluate"
    /\ pc = "profiled_run"
    /\ db_collections' = Profiled(db_collections, workload)
    /\ \/ /\ calls' = calls \o <<Call("setup_hook")>> \o ExecuteCalls(workload)
                        \o <<Call("cleanup_hook")>>
          /\ pc' = "disable_profiling"
          /\ exc' = exc
       \/ /\ IssuesQueries(workload)
          /\ calls' = calls \o <<Call("setup_hook")>> \o FailedExecuteCalls
          /\ Abort("QueryError")
    /\ UNCHANGED <<entry, workload_param, workload, num_runs, discard_best_worst,
                   profile_level, coll_indexes, stdout, recommended_indexes, ci, n,
                   exec_times_no_indexes, exec_times_with_indexes, metrics, texts>>

EvalDisableProfiling ==
    /\ entry = "evaluate"
    /\ pc = "disable_profiling"
    /\ disable_profiling("run_mindexer")
    /\ UNCHANGED <<entry, exc, workload_param, workload, num_runs, discard_best_worst,
                   db_collections, coll_indexes, stdout, recommended_indexes, ci, n,
                   exec_times_no_indexes, exec_times_with_indexes, metrics>>

EvalRunMindexer ==
    /\ entry = "evaluate"
    /\ pc = "run_mindexer"
    /\ \E out \in ToolOutputs : run_mindexer(out, "drop_indexes", TRUE)
    /\ UNCHANGED <<entry, workload_param, workload, num_runs, discard_best_worst,
                   db_collections, profile_level, coll_indexes, stdout, ci, n,
                   exec_times_no_indexes, exec_times_with_indexes, metrics>>

\* mutant: the indexes of the collection are left in place
EvalDropIndexes_kept ==
    /\ entry = "evaluate"
    /\ pc = "drop_indexes"
    /\ coll_indexes' = coll_indexes
    /\ calls' = Append(calls, Call("drop_indexes"))
    /\ pc' = "warmup_no_indexes"
    /\ UNCHANGED <<entry, exc, workload_param, workload, num_runs, discard_best_worst,
                   db_collections, profile_level, stdout, recommended_indexes, ci, n,
                   exec_times_no_indexes, exec_times_with_indexes, metrics, texts>>

EvalDropIndexes ==
    /\ entry = "evaluate"
    /\ pc = "drop_indexes"
    /\ coll_indexes' = <<>>
    /\ calls' = Append(calls, Call("drop_indexes"))
    /\ pc' = "warmup_no_indexes"
    /\ UNCHANGED <<entry, exc, workload_param, workload, num_runs, discard_best_worst,
                   db_collections, profile_level, stdout, recommended_indexes, ci, n,
                   exec_times_no_indexes, exec_times_with_indexes, metrics, texts>>

EvalWarmupNoIndexes ==
    /\ entry = "evaluate"
    /\ pc = "warmup_no_indexes"
    /\ WarmupRun("timed_no_indexes")
    /\ n' = 0
    /\ exec_times_no_indexes' = <<>>
    /\ UNCHANGED <<entry, workload_param, workload, num_runs, discard_best_worst,
                   db_collections, profile_level, coll_indexes, stdout,
                   recommended_indexes, ci, exec_times_with_indexes, metrics, texts>>

EvalTimedNoIndexes ==
    /\ entry = "evaluate"
    /\ pc = "timed_no_indexes"
    /\ n < num_runs
    /\ TimedRun("exec_time_no_indexes", "create_indexes")
    /\ UNCHANGED <<entry, workload_param, workload, num_runs, discard_best_worst,
                   db_collections, profile_level, coll_indexes, stdout,
                   recommended_indexes, ci, texts>>

\* mutant: the list of recommended indexes is not checked for emptiness
EvalCheckRecommended_unchecked ==
    /\ entry = "evaluate"
    /\ pc = "create_indexes"
    /\ pc' = IF recommended_indexes = <<>> THEN "warmup_with_indexes" ELSE "create_index"
    /\ ci' = 0
    /\ UNCHANGED <<entry, exc, workload_param, workload, num_runs, discard_best_worst,
                   db_collections, profile_level, coll_indexes, stdout,
                   recommended_indexes, n, exec_times_no_indexes,
                   exec_times_with_indexes, metrics, texts, calls>>

EvalCheckRecommended ==
    /\ entry = "evaluate"
    /\ pc = "create_indexes"
    /\ IF recommended_indexes = <<>>
       THEN Abort("ExperimentError") /\ UNCHANGED ci
       ELSE pc' = "create_index" /\ exc' = exc /\ ci' = 0
    /\ UNCHANGED <<entry, workload_param, workload, num_runs, discard_best_worst,
                   db_collections, profile_level, coll_indexes, stdout,
                   recommended_indexes, n, exec_times_no_indexes,
                   exec_times_with_indexes, metrics, texts, calls>>

\* mutant: a failed creation is passed over and the loop goes on
EvalCreateIndex_continue ==
    /\ entry = "evaluate"
    /\ pc = "create_index"
    /\ ci < Len(recommended_indexes)
    /\ LET spec == index_spec(recommended_indexes[ci + 1])
       IN  /\ calls' = Append(calls, CallWith("create_index", spec))
           /\ \/ coll_indexes' = Append(coll_indexes, spec)
              \/ UNCHANGED coll_indexes
           /\ ci' = ci + 1
           /\ pc' = IF ci + 1 = Len(recommended_indexes) THEN "warmup_with_indexes" ELSE pc
           /\ exc' = exc
    /\ UNCHANGED <<entry, workload_param, workload, num_runs, discard_best_worst,
                   db_collections, profile_level, stdout, recommended_indexes, n,
                   exec_times_no_indexes, exec_times_with_indexes, metrics, texts>>

EvalCreateIndex ==
    /\ entry = "evaluate"
    /\ pc = "create_index"
    /\ ci < Len(recommended_indexes)
    /\ LET spec == index_spec(recommended_indexes[ci + 1])
       IN  /\ calls' = Append(calls, CallWith("create_index", spec))
           /\ \/ /\ coll_indexes' = Append(coll_indexes, spec)
                 /\ ci' = ci + 1
                 /\ pc' = IF ci + 1 = Len(recommended_indexes)
                          THEN "warmup_with_indexes" ELSE pc
                 /\ exc' = exc
              \/ /\ Abort("OperationFailure")
                 /\ UNCHANGED <<coll_indexes, ci>>
    /\ UNCHANGED <<entry, workload_param, workload, num_runs, discard_best_worst,
                   db_collections, profile_level, stdout, recommended_indexes, n,
                   exec_times_no_indexes, exec_times_with_indexes, metrics, texts>>

EvalWarmupWithIndexes ==
    /\ entry = "evaluate"
    /\ pc = "warmup_with_indexes"
    /\ WarmupRun("timed_with_indexes")
    /\ n' = 0
    /\ exec_times_with_indexes' = <<>>
    /\ UNCHANGED <<entry, workload_param, workload, num_runs, discard_best_worst,
                   db_collections, profile_level, coll_indexes, stdout,
                   recommended_indexes, ci, exec_times_no_indexes, metrics, texts>>

EvalTimedWithIndexes ==
    /\ entry = "evaluate"
    /\ pc = "timed_with_indexes"
    /\ n < num_runs
    /\ TimedRun("exec_time_with_indexes", "statistics")
    /\ UNCHANGED <<entry, workload_param, workload, num_runs, discard_best_worst,
                   db_collections, profile_level, coll_indexes, stdout,
                   recommended_indexes, ci, texts>>

EvalStatistics ==
    /\ entry = "evaluate"
    /\ pc = "statistics"
    /\ exec_times_no_indexes' = StatSamples(exec_times_no_indexes)
    /\ exec_times_with_indexes' = StatSamples(exec_times_with_indexes)
    /\ metrics' = Append(metrics, Summary(StatSamples(exec_times_no_indexes),
                                          StatSamples(exec_times_with_indexes)))
    /\ pc' = "done"
    /\ UNCHANGED <<entry, exc, workload_param, workload, num_runs, discard_best_worst,
                   db_collections, profile_level, coll_indexes, stdout,
                   recommended_indexes, ci, n, texts, calls>>

(***************************************************************************)
(* profile_workload.main, one action per step.                             *)
(***************************************************************************)
\* main reads its parameters and connects; db and collection are the defaults
ProfConnect ==
    /\ entry = "profile_workload"
    /\ pc = "start"
    /\ workload' = [name |-> get_param(workload_param, "test"),
                    db_name |-> "ember2018", collection_name |-> "ember_train"]
    /\ calls' = Append(calls, Call("MongoClient"))
    /\ pc' = "enable_profiling"
    /\ UNCHANGED <<entry, exc, workload_param, num_runs, discard_best_worst,
                   db_collections, profile_level, coll_indexes, stdout,
                   recommended_indexes, ci, n, exec_times_no_indexes,
                   exec_times_with_indexes, metrics, texts>>

ProfEnableProfiling ==
    /\ entry = "profile_workload"
    /\ pc = "enable_profiling"
    /\ enable_profiling("validate_workload")
    /\ UNCHANGED <<entry, workload_param, workload, num_runs, discard_best_worst,
                   coll_indexes, stdout, recommended_indexes, ci, n,
                   exec_times_no_indexes, exec_times_with_indexes, metrics, texts>>

\* validate_workload reads the parameter again, without a default
validate_workload ==
    IF workload_param = "ABSENT" \/ workload_param = "" THEN "ValidationError"
    ELSE IF workload_param \notin {"linkbench", "ember", "test"} THEN "ValidationError"
    ELSE "none"

ProfValidateWorkload ==
    /\ entry = "profile_workload"
    /\ pc = "validate_workload"
    /\ IF validate_workload # "none"
       THEN Abort(validate_workload)
       ELSE pc' = "run_workload" /\ exc' = exc
    /\ UNCHANGED <<entry, workload_param, workload, num_runs, discard_best_worst,
                   db_collections, profile_level, coll_indexes, stdout,
                   recommended_indexes, ci, n, exec_times_no_indexes,
                   exec_times_with_indexes, metrics, texts, calls>>

\* run_workload_linkbench and run_workload_ember are `pass`; run_workload_test queries
ProfRunWorkload ==
    /\ entry = "profile_workload"
    /\ pc = "run_workload"
    /\ db_collections' = Profiled(db_collections, workload)
    /\ \/ /\ calls' = calls \o ExecuteCalls(workload)
          /\ pc' = "disable_profiling"
          /\ exc' = exc
       \/ /\ IssuesQueries(workload)
          /\ calls' = calls \o FailedExecuteCalls
          /\ Abort("QueryError")
    /\ UNCHANGED <<entry, workload_param, workload, num_runs, discard_best_worst,
                   profile_level, coll_indexes, stdout, recommended_indexes, ci, n,
                   exec_times_no_indexes, exec_times_with_indexes, metrics, texts>>

ProfDisableProfiling ==
    /\ entry = "profile_workload"
    /\ pc = "disable_profiling"
    /\ disable_profiling("run_mindexer")
    /\ UNCHANGED <<entry, exc, workload_param, workload, num_runs, discard_best_worst,
                   db_collections, coll_indexes, stdout, recommended_indexes, ci, n,
                   exec_times_no_indexes, exec_times_with_indexes, metrics>>

\* run_mindexer returns nothing and main ends
ProfRunMindexer ==
    /\ entry = "profile_workload"
    /\ pc = "run_mindexer"
    /\ \E out \in ToolOutputs : run_mindexer(out, "done", FALSE)
    /\ UNCHANGED <<entry, workload_param, workload, num_runs, discard_best_worst,
                   db_collections, profile_level, coll_indexes, stdout, ci, n,
                   exec_times_no_indexes, exec_times_with_indexes, metrics>>

Next ==
    \/ EvalValidate
    \/ EvalConnect
    \/ EvalEnableProfiling
    \/ EvalProfiledRun
    \/ EvalDisableProfiling
    \/ EvalRunMindexer
    \/ EvalDropIndexes
    \/ EvalWarmupNoIndexes
    \/ EvalTimedNoIndexes
    \/ EvalCheckRecommended
    \/ EvalCreateIndex
    \/ EvalWarmupWithIndexes
    \/ EvalTimedWithIndexes
    \/ EvalStatistics
    \/ ProfConnect
    \/ ProfEnableProfiling
    \/ ProfValidateWorkload
    \/ ProfRunWorkload
    \/ ProfDisableProfiling
    \/ ProfRunMindexer

Spec == Init /\ [][Next]_vars

(***************************************************************************)
(* Properties of parse_mindexer_output (under SpecParse).                  *)
(***************************************************************************)
Parsed == entry = "parse" /\ pc # "parse"

Outcome == [exc |-> exc, value |-> recommended_indexes]

HasMarker(lines) == \E i \in 1..Len(lines) : IsRecommendingLine(lines[i])

FirstMarker(lines) ==
    CHOOSE i \in 1..Len(lines) :
        /\ IsRecommendingLine(lines[i])
        /\ \A j \in 1..(i - 1) : ~IsRecommendingLine(lines[j])

LinesAfterMarker(lines) == SubSeq(lines, FirstMarker(lines) + 1, Len(lines))

IsLiteralLine(line) ==
    LooksLikeDict(Strip(line)) /\ literal_eval(Strip(line)).exc = "none"

\* the values of the brace-enclosed lines that are literals, in order
LiteralValues(lines) ==
    LET sel == SelectSeq(lines, IsLiteralLine)
    IN  [i \in 1..Len(sel) |-> literal_eval(Strip(sel[i])).value]

\* the lines with every marker line replaced by a line of plain text
Demarked(lines) ==
    [i \in 1..Len(lines) |-> IF IsRecommendingLine(lines[i]) THEN LineText ELSE lines[i]]

\* C1: on an output with a marker line, parse_mindexer_output returns, without
\* raising, exactly the values of the lines after the first marker line that are
\* brace-enclosed and valid literals, in order; every other line is skipped.
C1_ReturnsLiteralsAfterMarker ==
    (Parsed /\ HasMarker(output_lines(stdout)))
        => /\ exc = "none"
           /\ recommended_indexes = LiteralValues(LinesAfterMarker(output_lines(stdout)))

\* C2: without a marker line the result is the empty list; otherwise the outcome
\* is that of the extraction loop on the lines after the first marker line alone,
\* and it is the same with every later marker line replaced by plain text; when
\* nothing is raised the result is the list of literal values of those lines.
C2_OnlyAfterFirstMarker ==
    Parsed =>
        IF ~HasMarker(output_lines(stdout))
        THEN exc = "none" /\ recommended_indexes = <<>>
        ELSE /\ Outcome = ExtractIndexes(LinesAfterMarker(output_lines(stdout)), 1, <<>>)
             /\ Outcome = ExtractIndexes(Demarked(LinesAfterMarker(output_lines(stdout))),
                                         1, <<>>)
             /\ exc = "none" =>
                    recommended_indexes
                        = LiteralValues(Demarked(LinesAfterMarker(output_lines(stdout))))

\* C2 witness: a dictionary line before the first marker line is left out, and a
\* second marker line does not stop the dictionary line after it from being returned
C2_Witness ==
    /\ Parsed
    /\ stdout = Join(<<LineAB, LineMarker, LineMarker, LineA>>)
    /\ exc = "none"
    /\ recommended_indexes = <<literal_eval(LineA).value>>

\* a field name mapped to a direction of +1 or -1
IsIndexDescriptor(v) ==
    /\ v.k = "dict"
    /\ \A i \in 1..Len(v.items) :
        /\ v.items[i].items[1].k = "str"
        /\ v.items[i].items[1].s # ""
        /\ v.items[i].items[2].k = "int"
        /\ v.items[i].items[2].n \in {1, 0 - 1}

\* C3: every descriptor returned by parse_mindexer_output maps field names to
\* directions, each +1 or -1.
C3_DescriptorsAreDirectionMaps ==
    Parsed => \A i \in 1..Len(recommended_indexes) : IsIndexDescriptor(recommended_indexes[i])

(***************************************************************************)
(* Properties of the two entry points (under Spec).                        *)
(***************************************************************************)
Evaluating == entry = "evaluate"

Profiling == entry = "profile_workload"

Called(op) == \E i \in 1..Len(calls) : calls[i].op = op

CountCalls(op) == Cardinality({i \in 1..Len(calls) : calls[i].op = op})

IsCreateIndex(c) == c.op = "create_index"

\* the arguments of the collection.create_index calls, in order
CreateIndexArgs ==
    LET sel == SelectSeq(calls, IsCreateIndex)
    IN  [i \in 1..Len(sel) |-> sel[i].arg]

\* the metrics logged under a name, in order
Logged(name) == SelectSeq(metrics, LAMBDA m : m.name = name)

Values(ms) == [i \in 1..Len(ms) |-> ms[i].value]

\* the steps of the logged samples are 0, 1, ..., in order
StepsInOrder(ms) == \A i \in 1..Len(ms) : ms[i].step = i - 1

SummaryLogged == Logged("summary") # <<>>

\* run_mindexer returned and the tool had recommended nothing
ZeroRecommended ==
    \E i \in 1..Len(texts) :
        /\ texts[i].name = "mindexer_recommended_indexes.json"
        /\ texts[i].content = <<>>

RECURSIVE DictOfPairs(_, _)
\* dict(pairs), inserting the pairs in order into the entries acc
DictOfPairs(pairs, acc) ==
    IF pairs = <<>> THEN PyDict(acc)
    ELSE DictOfPairs(Tail(pairs),
                     DictInsert(acc, Head(pairs).items[1], Head(pairs).items[2]))

\* spec is what create_indexes must hand over for the descriptor index
RoundTrips(index, spec) ==
    IF index.k = "dict"
    THEN /\ spec.k = "list"
         /\ Len(spec.items) = Len(index.items)
         /\ \A i \in 1..Len(spec.items) :
                spec.items[i] = PyTuple(<<index.items[i].items[1], index.items[i].items[2]>>)
         /\ DictOfPairs(spec.items, <<>>) = index
    ELSE spec = index

\* C4: each create_index call gets, for a dict descriptor, one (field, direction)
\* pair per key, in key order, with the direction unchanged, so that the dict
\* rebuilt from the pairs is the descriptor; any other descriptor is handed over
\* unchanged.
C4_IndexSpecRoundTrips ==
    Evaluating =>
        /\ Len(CreateIndexArgs) <= Len(recommended_indexes)
        /\ \A j \in 1..Len(CreateIndexArgs) :
               RoundTrips(recommended_indexes[j], CreateIndexArgs[j])

\* C4 witness: a dict of two fields with different directions and a descriptor
\* that is not a dict have both been handed to create_index
C4_Witness ==
    /\ Evaluating
    /\ Len(CreateIndexArgs) = 2
    /\ recommended_indexes[1].k = "dict"
    /\ Len(recommended_indexes[1].items) = 2
    /\ recommended_indexes[1].items[2].items[2] = PyInt(0 - 1)
    /\ recommended_indexes[2].k = "tuple"

BagOfSeq(t) ==
    [v \in {t[i] : i \in 1..Len(t)} |-> Cardinality({i \in 1..Len(t) : t[i] = v})]

MinOf(t) == CHOOSE v \in {t[i] : i \in 1..Len(t)} : \A i \in 1..Len(t) : v <= t[i]

MaxOf(t) == CHOOSE v \in {t[i] : i \in 1..Len(t)} : \A i \in 1..Len(t) : v >= t[i]

\* samples is collected with one minimum and one maximum taken out when
\* discarding applies, and collected itself otherwise
SamplesOf(collected, samples) ==
    IF discard_best_worst /\ num_runs >= 3
    THEN /\ Len(samples) = num_runs - 2
         /\ BagOfSeq(samples) (+) BagOfSeq(<<MinOf(collected), MaxOf(collected)>>)
                = BagOfSeq(collected)
    ELSE samples = collected

\* C5: the statistics of each series are computed over its num_runs collected
\* samples less one minimum and one maximum when eval.discard_best_worst is set
\* and num_runs >= 3, and over all of them otherwise; each series on its own,
\* and never over an empty list.
C5_StatisticsSamples ==
    (Evaluating /\ pc = "done") =>
        /\ Len(Logged("summary")) = 1
        /\ Len(Logged("exec_time_no_indexes")) = num_runs
        /\ Len(Logged("exec_time_with_indexes")) = num_runs
        /\ SamplesOf(Values(Logged("exec_time_no_indexes")),
                     Logged("summary")[1].value.samples_no_indexes)
        /\ SamplesOf(Values(Logged("exec_time_with_indexes")),
                     Logged("summary")[1].value.samples_with_indexes)
        /\ Logged("summary")[1].value.samples_no_indexes # <<>>
        /\ Logged("summary")[1].value.samples_with_indexes # <<>>
        /\ Logged("summary")[1].value.mean_exec_time_no_indexes
               = Mean(Logged("summary")[1].value.samples_no_indexes)
        /\ Logged("summary")[1].value.mean_exec_time_with_indexes
               = Mean(Logged("summary")[1].value.samples_with_indexes)

\* C5 witness: three runs with discarding; the minimum occurs twice in one series
\* and the maximum twice in the other, and one copy of each extreme is kept
C5_Witness ==
    /\ Evaluating
    /\ pc = "done"
    /\ discard_best_worst
    /\ num_runs = 3
    /\ Values(Logged("exec_time_no_indexes")) = <<2, 1, 1>>
    /\ Values(Logged("exec_time_with_indexes")) = <<2, 1, 2>>
    /\ Logged("summary")[1].value.samples_no_indexes = <<1>>
    /\ Logged("summary")[1].value.samples_with_indexes = <<2>>

\* what never happens once the tool recommended nothing
NothingWithIndexes ==
    /\ ~Called("create_index")
    /\ CountCalls("execute_workload") <= 2 + num_runs
    /\ Logged("exec_time_with_indexes") = <<>>
    /\ exec_times_with_indexes = <<>>
    /\ ~SummaryLogged
    /\ pc # "done"

\* C6 as stated: with zero recommended indexes the run aborts with an
\* ExperimentError, create_indexes is never called, no run of the with-indexes
\* phase executes and no summary is logged.
C6_AbortsWithExperimentError ==
    (Evaluating /\ ZeroRecommended) =>
        /\ NothingWithIndexes
        /\ pc = "aborted" => exc = "ExperimentError"

\* C6 amended: with zero recommended indexes the run never completes,
\* create_indexes is never called, no run of the with-indexes phase executes and
\* no summary is logged; the run aborts with an ExperimentError when the
\* without-indexes phase has completed, and with the exception of a run of that
\* phase when one raises first.
C6_AbortsBeforeCreatingIndexes ==
    (Evaluating /\ ZeroRecommended) =>
        /\ NothingWithIndexes
        /\ pc = "aborted" =>
            IF Len(Logged("exec_time_no_indexes")) = num_runs
            THEN exc = "ExperimentError"
            ELSE exc = "QueryError"

\* C6 witness: the run was aborted by the ExperimentError after all the runs
\* without indexes
C6_Witness ==
    /\ Evaluating
    /\ ZeroRecommended
    /\ pc = "aborted"
    /\ exc = "ExperimentError"
    /\ num_runs = 2
    /\ Len(Logged("exec_time_no_indexes")) = 2

\* C7: in profile_workload.main a tool output with zero recommended indexes
\* aborts the run instead of letting it complete.
C7_ProfileAbortsWithoutIndexes ==
    (Profiling /\ ZeroRecommended) => pc # "done"

\* the execute_workload call at position i raised: its first query is the only
\* query that follows it
RaisedAt(i) ==
    /\ calls[i].op = "execute_workload"
    /\ IssuesQueries(workload)
    /\ ~(i + 2 <= Len(calls) /\ calls[i + 1].op = "find" /\ calls[i + 2].op = "find")

\* the number of execute_workload calls up to position i
ExecutionsUpTo(i) == Cardinality({j \in 1..i : calls[j].op = "execute_workload"})

\* what is logged when timed run number k of the phase without indexes raised
LoggedAtNoIndexes(k) ==
    /\ Len(Logged("exec_time_no_indexes")) = k
    /\ StepsInOrder(Logged("exec_time_no_indexes"))
    /\ Logged("exec_time_with_indexes") = <<>>
    /\ ~Called("create_index")

\* what is logged when timed run number k of the phase with indexes raised
LoggedAtWithIndexes(k) ==
    /\ Len(Logged("exec_time_no_indexes")) = num_runs
    /\ StepsInOrder(Logged("exec_time_no_indexes"))
    /\ Len(Logged("exec_time_with_indexes")) = k
    /\ StepsInOrder(Logged("exec_time_with_indexes"))

\* the e-th execution of the workload is timed run e - 3 without indexes or timed
\* run e - 4 - num_runs with indexes (after the profiled run and the warmups)
LoggedAtExecution(e) ==
    /\ e \in 3..(2 + num_runs) => LoggedAtNoIndexes(e - 3)
    /\ e \in (4 + num_runs)..(3 + 2 * num_runs) => LoggedAtWithIndexes(e - 4 - num_runs)

\* C8: a timed run that raises is the last thing evaluate.main does: nothing is
\* called after the failed query, main is left by that exception, no metric is
\* logged for the step, none for a later step or phase, no summary; the metrics
\* of the steps before it remain.
C8_FailedRunAborts ==
    Evaluating =>
        \A i \in 1..Len(calls) :
            RaisedAt(i) =>
                /\ i + 1 = Len(calls)
                /\ pc = "aborted"
                /\ exc = "QueryError"
                /\ ~SummaryLogged
                /\ LoggedAtExecution(ExecutionsUpTo(i))

\* C8 witness: timed run 1 of the phase with indexes raised in a run of two
\* timed runs per phase; three samples had been logged before
C8_Witness ==
    /\ Evaluating
    /\ pc = "aborted"
    /\ exc = "QueryError"
    /\ num_runs = 2
    /\ CountCalls("execute_workload") = 7
    /\ Len(Logged("exec_time_no_indexes")) = 2
    /\ Len(Logged("exec_time_with_indexes")) = 1
    /\ RaisedAt(Len(calls) - 1)

\* enable_profiling was entered and the workload's collection is not in the database
EnabledOnMissingCollection ==
    /\ Called("profile_0")
    /\ workload.collection_name \notin db_collections

\* C9: enable_profiling on a missing collection raises ValidationError with the
\* profiling level at 0, profile level 1 never requested and system.profile not
\* dropped; evaluate.main then neither executes the workload nor invokes the tool.
C9_MissingCollectionAborts ==
    EnabledOnMissingCollection =>
        /\ pc = "aborted"
        /\ exc = "ValidationError"
        /\ profile_level = 0
        /\ ~Called("profile_1")
        /\ ~Called("drop_collection")
        /\ Evaluating =>
            /\ ~Called("setup_hook")
            /\ ~Called("execute_workload")
            /\ ~Called("find")
            /\ ~Called("mindexer")

\* C9 witness: evaluate.main was aborted by enable_profiling while an earlier
\* system.profile collection exists, which is still there
C9_Witness ==
    /\ Evaluating
    /\ EnabledOnMissingCollection
    /\ pc = "aborted"
    /\ "system.profile" \in db_collections

\* the configured workload is empty or none of the three names
BadWorkloadName == workload_param \in {"", "bogus"}

WorkloadNames == {"ember", "linkbench", "test"}

\* C10: with an empty or unknown workload name both entry points abort with a
\* ValidationError before any workload query and before the tool is invoked;
\* get_workload raises ValueError outside the three names and returns a workload
\* with non-empty db_name and collection_name for each of them.
C10_BadWorkloadAborts ==
    /\ BadWorkloadName =>
        /\ pc # "done"
        /\ pc = "aborted" => exc = "ValidationError"
        /\ Evaluating => pc \in {"start", "aborted"}
        /\ Profiling => pc \in {"start", "enable_profiling", "validate_workload", "aborted"}
        /\ ~Called("execute_workload")
        /\ ~Called("find")
        /\ ~Called("mindexer")
    /\ \A name \in WorkloadParams \ {"ABSENT"} :
        IF name \in WorkloadNames
        THEN /\ get_workload(name).exc = "none"
             /\ get_workload(name).value.name = name
             /\ get_workload(name).value.db_name # ""
             /\ get_workload(name).value.collection_name # ""
        ELSE get_workload(name).exc = "ValueError"
    /\ (Evaluating /\ pc \notin {"start", "aborted"}) =>
        /\ workload = get_workload(get_param(workload_param, "test")).value
        /\ workload.db_name # ""
        /\ workload.collection_name # ""

\* C10 witness: profile_workload.main was aborted by validate_workload on an
\* unknown name, after profiling had been enabled
C10_Witness ==
    /\ Profiling
    /\ workload_param = "bogus"
    /\ pc = "aborted"
    /\ exc = "ValidationError"
    /\ Called("profile_1")

(***************************************************************************)
(* Order of the steps of evaluate.main (under Spec).                       *)
(***************************************************************************)
Ops(cs) == [i \in 1..Len(cs) |-> cs[i].op]

RECURSIVE Repeat(_, _)
\* the sequence t, k times over
Repeat(t, k) == IF k <= 0 THEN <<>> ELSE t \o Repeat(t, k - 1)

\* the operations of one execution of the workload that does not raise
ExecutionOps == Ops(ExecuteCalls(workload))

\* the operations of a successful run, step by step, the optional drop of an
\* earlier system.profile collection left out
StepsOfRun ==
    <<"MongoClient">>
        \o <<"profile_0", "list_collection_names", "list_collection_names", "profile_1">>
        \o <<"setup_hook">> \o ExecutionOps \o <<"cleanup_hook">>
        \o <<"profile_0", "count_documents", "find_profile">>
        \o <<"mindexer">>
        \o <<"drop_indexes">>
        \o Repeat(ExecutionOps, 1 + num_runs)
        \o Repeat(<<"create_index">>, Len(recommended_indexes))
        \o Repeat(ExecutionOps, 1 + num_runs)

NotDropCollection(c) == c.op # "drop_collection"

\* the names under which metrics were logged, in order
MetricNames == [i \in 1..Len(metrics) |-> metrics[i].name]

\* the names under which texts were logged, in order
TextNames == [i \in 1..Len(texts) |-> texts[i].name]

\* the position of the first call of an operation
FirstCall(op) == CHOOSE i \in 1..Len(calls) : calls[i].op = op /\ \A j \in 1..(i - 1) : calls[j].op # op

\* C11: a successful run of evaluate.main has made its calls in the order enable
\* profiling, workload (setup hook, execute, cleanup hook), disable profiling and
\* store the profile, tool, drop indexes, warmup and timed runs, create indexes,
\* warmup and timed runs, and then logged the summary; the tool is invoked with
\* the profiling level at 0, right after the profile entries were stored.
C11_StepsInOrder ==
    Evaluating =>
        /\ pc = "run_mindexer" => profile_level = 0 /\ ~Called("mindexer")
        /\ Called("mindexer") =>
            /\ calls[FirstCall("mindexer") - 1].op = "find_profile"
            /\ calls[FirstCall("mindexer") - 3].op = "profile_0"
            /\ CountCalls("mindexer") = 1
            /\ profile_level = 0
            /\ TextNames[1] = "system_profile.json"
        /\ pc = "done" =>
            /\ Ops(SelectSeq(calls, NotDropCollection)) = StepsOfRun
            /\ Called("drop_collection") => calls[5].op = "drop_collection"
            /\ TextNames = <<"system_profile.json", "mindexer_recommended_indexes.json">>
            /\ MetricNames = Repeat(<<"exec_time_no_indexes">>, num_runs)
                                \o Repeat(<<"exec_time_with_indexes">>, num_runs)
                                \o <<"summary">>

\* C11 witness: a completed run of two timed runs per phase that dropped an
\* earlier system.profile collection and created two indexes
C11_Witness ==
    /\ Evaluating
    /\ pc = "done"
    /\ num_runs = 2
    /\ Called("drop_collection")
    /\ CountCalls("create_index") = 2
    /\ IssuesQueries(workload)

\* the executions of the workload made so far that were not timed runs
UntimedExecutions ==
    IF pc \in {"profiled_run"} THEN 0
    ELSE IF pc \in {"disable_profiling", "run_mindexer", "drop_indexes", "warmup_no_indexes"}
    THEN 1
    ELSE IF pc \in {"timed_no_indexes", "create_indexes", "create_index", "warmup_with_indexes"}
    THEN 2
    ELSE 3

\* C12: a completed run of evaluate.main with num_runs = N >= 1 has called
\* execute_workload 2N + 3 times and logged N samples per series, with steps
\* 0..N-1 in order; at every point of a run that has not raised, the samples
\* logged are one per timed run executed, so that the profiled run and the
\* warmups add none.
C12_ExecutionsAndSamples ==
    Evaluating =>
        /\ pc = "done" =>
            /\ num_runs >= 1
            /\ CountCalls("execute_workload") = 2 * num_runs + 3
            /\ Len(Logged("exec_time_no_indexes")) = num_runs
            /\ Len(Logged("exec_time_with_indexes")) = num_runs
            /\ StepsInOrder(Logged("exec_time_no_indexes"))
            /\ StepsInOrder(Logged("exec_time_with_indexes"))
            /\ Len(metrics) = 2 * num_runs + 1
        /\ pc \notin {"start", "connect", "enable_profiling", "aborted", "done"} =>
            /\ Len(metrics) = CountCalls("execute_workload") - UntimedExecutions
            /\ Len(metrics) = Len(Logged("exec_time_no_indexes"))
                                + Len(Logged("exec_time_with_indexes"))
        /\ pc \in {"warmup_no_indexes", "drop_indexes", "run_mindexer"} => metrics = <<>>
        /\ pc = "warmup_with_indexes" => Len(metrics) = num_runs

\* C12 witness: a completed run with N = 3: nine executions, three samples per
\* series
C12_Witness ==
    /\ Evaluating
    /\ pc = "done"
    /\ num_runs = 3
    /\ CountCalls("execute_workload") = 9
    /\ Len(Logged("exec_time_no_indexes")) = 3
    /\ Len(Logged("exec_time_with_indexes")) = 3
    /\ Logged("exec_time_with_indexes")[3].step = 2

\* the parameters evaluate.main rejects: no run, an empty or an unknown name
BadParameters ==
    \/ num_runs <= 0
    \/ workload_param = ""
    \/ workload_param \notin (WorkloadNames \cup {"ABSENT"})

\* C13: with eval.num_runs <= 0 or an empty or unknown workload name,
\* evaluate.main raises ValidationError before the MongoClient is created:
\* nothing was called on the database or the tool and nothing logged; with good
\* parameters the client is created only after the validation.
C13_ValidatesBeforeConnecting ==
    Evaluating =>
        /\ BadParameters =>
            /\ pc \in {"start", "aborted"}
            /\ pc = "aborted" => exc = "ValidationError"
            /\ calls = <<>>
            /\ texts = <<>>
            /\ metrics = <<>>
            /\ workload = NoWorkload
        /\ pc = "start" => calls = <<>>
        /\ Called("MongoClient") => ~BadParameters /\ workload # NoWorkload

\* C13 witness: a run with a good workload name and num_runs = 0 was aborted
\* with nothing called; the server was profiling and still is
C13_Witness ==
    /\ Evaluating
    /\ pc = "aborted"
    /\ exc = "ValidationError"
    /\ num_runs = 0
    /\ workload_param = "test"
    /\ calls = <<>>
    /\ profile_level = 1

\* what create_indexes hands over for the first k descriptors, in list order
SpecsUpTo(k) == [j \in 1..k |-> index_spec(recommended_indexes[j])]

\* create_indexes was left by the exception of a create_index call
CreationFailed == Evaluating /\ pc = "aborted" /\ exc = "OperationFailure"

\* C14: create_indexes calls create_index once per descriptor, in list order,
\* and every call that returned has left its index on the collection; when the
\* k-th call raises, the exception leaves main, the k - 1 indexes created before
\* are still there, and no later descriptor is handed to create_index.
C14_StopsAtFirstFailure ==
    Evaluating =>
        /\ Len(CreateIndexArgs) <= Len(recommended_indexes)
        /\ CreateIndexArgs = SpecsUpTo(Len(CreateIndexArgs))
        /\ Called("create_index") =>
            /\ coll_indexes \in {SpecsUpTo(Len(CreateIndexArgs)),
                                 SpecsUpTo(Len(CreateIndexArgs) - 1)}
            /\ coll_indexes = SpecsUpTo(Len(CreateIndexArgs) - 1) <=> CreationFailed
            /\ CreationFailed => calls[Len(calls)].op = "create_index"
            /\ pc \notin {"create_index", "aborted"} =>
                   Len(CreateIndexArgs) = Len(recommended_indexes)

\* C14 witness: the second of two creations raised; the first index is in place
C14_Witness ==
    /\ CreationFailed
    /\ Len(recommended_indexes) = 2
    /\ Len(CreateIndexArgs) = 2
    /\ coll_indexes = <<index_spec(recommended_indexes[1])>>

\* the number of calls of an operation before position i
CallsBefore(op, i) == Cardinality({j \in 1..(i - 1) : calls[j].op = op})

\* the last profile command before position i set the level to 0
ProfilingOffAt(i) ==
    \E j \in 1..(i - 1) :
        /\ calls[j].op = "profile_0"
        /\ \A k \in (j + 1)..(i - 1) : calls[k].op # "profile_1"

\* C15: in evaluate.main a warmup or timed run is about to execute, or has
\* executed, only with the profiling level at 0; in the phase without indexes
\* only after drop_indexes and before any create_index call, the collection
\* having no index but the default one; in the phase with indexes only after
\* every recommended index was created.
C15_RunsSeeTheRightIndexes ==
    Evaluating =>
        /\ pc \in {"warmup_no_indexes", "timed_no_indexes",
                    "warmup_with_indexes", "timed_with_indexes"} => profile_level = 0
        /\ pc \in {"warmup_no_indexes", "timed_no_indexes"} =>
            /\ Called("drop_indexes")
            /\ ~Called("create_index")
            /\ coll_indexes = <<>>
        /\ pc \in {"warmup_with_indexes", "timed_with_indexes"} =>
            /\ recommended_indexes # <<>>
            /\ CountCalls("create_index") = Len(recommended_indexes)
            /\ coll_indexes = SpecsUpTo(Len(recommended_indexes))
        /\ \A i \in 1..Len(calls) :
            (calls[i].op = "execute_workload" /\ ExecutionsUpTo(i) >= 2) =>
                /\ ProfilingOffAt(i)
                /\ CallsBefore("drop_indexes", i) = 1
                /\ ExecutionsUpTo(i) <= 2 + num_runs => CallsBefore("create_index", i) = 0
                /\ ExecutionsUpTo(i) >= 3 + num_runs =>
                       CallsBefore("create_index", i) = Len(recommended_indexes)

\* C15 witness: between two timed runs without indexes, two indexes recommended
\* and none on the collection
C15_Witness ==
    /\ Evaluating
    /\ pc = "timed_no_indexes"
    /\ num_runs = 2
    /\ n = 1
    /\ Len(recommended_indexes) = 2
    /\ coll_indexes = <<>>
    /\ profile_level = 0
    /\ CountCalls("execute_workload") = 3

====
